---- MODULE Spec2Model ----
(***************************************************************************)
(* ComposerCommandEngine (hwc3): the batch executor, the display and layer *)
(* command dispatchers and the present/validate protocol, as a state       *)
(* machine.  One step of the machine is one statement of execute's loop or *)
(* one DISPATCH_* macro line; the HAL (mHal) and the resolver statuses are *)
(* inputs drawn at the call.                                               *)
(***************************************************************************)
EXTENDS Integers, Sequences, FiniteSets, TLC

\* ------------------------------------------------------------------ bounds
\* commands per batch
MaxBatch == 2
\* LayerCommands per DisplayCommand
MaxLayers == 1
\* populated optional fields dispatched in one run of the machine
MaxOps == 2

\* ------------------------------------------------------- program constants
HWC2_ERROR_NONE == 0
HWC2_ERROR_BAD_DISPLAY == 2
HWC2_ERROR_BAD_PARAMETER == 4
HWC2_ERROR_HAS_CHANGES == 5
EX_NOT_VALIDATED == 7
\* nullptr (a buffer_handle_t that carries no handle)
NullHandle == 0
\* the layer argument of a display-level call
NoLayer == 0

\* ------------------------------------------------------------ input domains
Displays == {1, 2}
Layers == {10, 11}
Slots == {0}
Handles == {1, 2}
\* status a HAL setter can return
HalStatus == {HWC2_ERROR_NONE, HWC2_ERROR_BAD_DISPLAY}
\* status HAL validateDisplay can return
ValidateStatus == {HWC2_ERROR_NONE, HWC2_ERROR_HAS_CHANGES, HWC2_ERROR_BAD_DISPLAY}
\* status the Resource Cache can return
ResolverStatus == {HWC2_ERROR_NONE, HWC2_ERROR_BAD_PARAMETER}

\* ------------------------------------------------------------------- state
VARIABLES
    pc,             \* position of the calling thread
    batchLen,       \* commands.size() of the running execute call
    it,             \* the range-for iterator of execute: commands dispatched
    mCommandIndex,  \* ComposerCommandEngine::mCommandIndex
    display,        \* command.display of the DisplayCommand being dispatched
    nLayers,        \* command.layers.size()
    layerIt,        \* the range-for iterator over command.layers
    layer,          \* layerCmd.layer of the LayerCommand being dispatched
    fld,            \* the DISPATCH_* line the thread is at (1-based)
    mWriter,        \* ComposerServiceWriter: the entries recorded, in order
    mustValidate,   \* mResources: the must-validate flag of each display
    cache,          \* mResources: the handle cached per (kind, display, layer, slot)
    result,         \* *result of the running or last execute call
    ret,            \* <<>> until an execute returns, then <<its return value>>
    last,           \* the DISPATCH_* line just taken: its field, whether it was
                    \* populated, the calls made on mHal and mResources, the
                    \* entries written to mWriter
    nOps            \* populated fields dispatched so far

vars == <<pc, batchLen, it, mCommandIndex, display, nLayers, layerIt, layer, fld,
          mWriter, mustValidate, cache, result, ret, last, nOps>>

\* ------------------------------------------------------------ collaborators
CacheKeys ==
    {<<"layer", d, l, s>> : d \in Displays, l \in Layers, s \in Slots}
    \cup {<<k, d, NoLayer, s>> : k \in {"client", "output"}, d \in Displays, s \in Slots}

\* a call on mHal or mResources, with the status it returned
Call(fn, d, l, slot, flag, h, st) ==
    [fn |-> fn, display |-> d, layer |-> l, slot |-> slot, flag |-> flag,
     handle |-> h, status |-> st]

\* an entry of the writer
Entry(type, index, d, code) ==
    [type |-> type, index |-> index, display |-> d, code |-> code]

\* the C++ truth value of a status
Truthy(err) == err # 0

\* the engine's view while one handler runs: writer, flags, cache, the calls
\* made so far, the last status (err) and the last resolved handle (out)
S0 == [w |-> mWriter, mv |-> mustValidate, c |-> cache, calls |-> <<>>,
       err |-> 0, out |-> NullHandle]

NoStep == [op |-> "none", populated |-> FALSE, calls |-> <<>>, wrote |-> <<>>]

\* mHal-><fn>(display, layer, ...) returning st
Hal(s, fn, d, l, h, st) ==
    [s EXCEPT !.calls = Append(@, Call(fn, d, l, 0, FALSE, h, st)), !.err = st]

\* mWriter->setError(index, err)
setError(s, index, err) ==
    [s EXCEPT !.w = Append(@, Entry("error", index, 0, err))]

\* mWriter-><setter>(display, ...)
setResult(s, type, d) ==
    [s EXCEPT !.w = Append(@, Entry(type, 0, d, 0))]

\* ::android::makeFromAidl on an abstract handle id
makeFromAidl(h) == h

\* mResources->get*(display, [layer,] slot, useCache, handle, out, releaser):
\* rst is the status of the resolver for a reason of its own; a request for
\* the cached value of an empty slot fails; otherwise the cached handle is
\* returned, or the supplied one adopted
Resolve(s, fn, kind, d, l, slot, useCache, handle, rst) ==
    LET key == <<kind, d, l, slot>>
        miss == useCache /\ s.c[key] = NullHandle
        st == IF Truthy(rst) THEN rst
              ELSE IF miss THEN HWC2_ERROR_BAD_PARAMETER ELSE HWC2_ERROR_NONE
        got == IF useCache THEN s.c[key] ELSE handle
    IN  [s EXCEPT !.calls = Append(@, Call(fn, d, l, slot, useCache, handle, st)),
                  !.err = st,
                  !.out = IF Truthy(st) THEN s.out ELSE got,
                  !.c = IF Truthy(st) \/ useCache THEN s.c
                        ELSE [s.c EXCEPT ![key] = handle]]

\* mResources->getLayerSidebandStream(display, layer, handle, out, releaser):
\* the imported stream is handed back; it has no slot
getLayerSidebandStream(s, d, l, handle, rst) ==
    [s EXCEPT !.calls = Append(@, Call("getLayerSidebandStream", d, l, 0, FALSE,
                                       handle, rst)),
              !.err = rst,
              !.out = IF Truthy(rst) THEN s.out ELSE handle]

\* --------------------------------------------------- display-level handlers
executeSetColorTransform(s, d, st) ==
    LET s1 == Hal(s, "setColorTransform", d, NoLayer, NullHandle, st)
    IN  IF Truthy(st) THEN setError(s1, mCommandIndex, st) ELSE s1

\* a resolve-then-set that never asks for the cached value
ResolveThenSetAdoptsAlways(s, getter, kind, setter, d, l, slot, h, rst, st) ==
    LET s1 == Resolve(s, getter, kind, d, l, slot, FALSE, makeFromAidl(h), rst)
    IN  IF ~Truthy(s1.err)
        THEN LET s2 == Hal(s1, setter, d, l, s1.out, st)
             IN  IF Truthy(st) THEN setError(s2, mCommandIndex, st) ELSE s2
        ELSE setError(s1, mCommandIndex, s1.err)

\* the shape shared by executeSetClientTarget, executeSetOutputBuffer and
\* executeSetLayerBuffer: resolve, then set on success, record either failure
ResolveThenSet(s, getter, kind, setter, d, l, slot, h, rst, st) ==
    LET useCache == (h = NullHandle)
        handle == IF useCache THEN NullHandle ELSE makeFromAidl(h)
        s1 == Resolve(s, getter, kind, d, l, slot, useCache, handle, rst)
    IN  IF ~Truthy(s1.err)
        THEN LET s2 == Hal(s1, setter, d, l, s1.out, st)
             IN  IF Truthy(st) THEN setError(s2, mCommandIndex, st) ELSE s2
        ELSE setError(s1, mCommandIndex, s1.err)

executeSetClientTarget(s, d, slot, h, rst, st) ==
    ResolveThenSet(s, "getDisplayClientTarget", "client", "setClientTarget",
                   d, NoLayer, slot, h, rst, st)

executeSetOutputBuffer(s, d, slot, h, rst, st) ==
    ResolveThenSet(s, "getDisplayOutputBuffer", "output", "setOutputBuffer",
                   d, NoLayer, slot, h, rst, st)

executeSetDisplayBrightness(s, d, st) ==
    LET s1 == Hal(s, "setDisplayBrightness", d, NoLayer, NullHandle, st)
    IN  IF Truthy(st) THEN setError(s1, mCommandIndex, st) ELSE s1

executeSetExpectedPresentTimeInternal(s, d) ==
    [s EXCEPT !.calls = Append(@, Call("setExpectedPresentTime", d, NoLayer, 0,
                                       FALSE, NullHandle, HWC2_ERROR_NONE))]

\* a validate that publishes its data whatever the status
ValidatePublishesAlways(s, d, st) ==
    LET s1 == Hal(s, "validateDisplay", d, NoLayer, NullHandle, st)
        s2 == [s1 EXCEPT !.mv = [s1.mv EXCEPT ![d] = FALSE],
                         !.calls = Append(@, Call("setDisplayMustValidateState", d,
                                    NoLayer, 0, FALSE, NullHandle, HWC2_ERROR_NONE))]
        s3 == setResult(setResult(s2, "changedCompositionTypes", d),
                        "displayRequests", d)
    IN  IF st = HWC2_ERROR_NONE \/ st = HWC2_ERROR_HAS_CHANGES
        THEN s3
        ELSE setError(s3, mCommandIndex, st)

\* a validate that clears one flag shared by all displays
ValidateClearsEveryDisplay(s, d, st) ==
    LET s1 == Hal(s, "validateDisplay", d, NoLayer, NullHandle, st)
        s2 == [s1 EXCEPT !.mv = [x \in Displays |-> FALSE],
                         !.calls = Append(@, Call("setDisplayMustValidateState", d,
                                    NoLayer, 0, FALSE, NullHandle, HWC2_ERROR_NONE))]
    IN  IF st = HWC2_ERROR_NONE \/ st = HWC2_ERROR_HAS_CHANGES
        THEN setResult(setResult(s2, "changedCompositionTypes", d),
                       "displayRequests", d)
        ELSE setError(s2, mCommandIndex, st)

\* a validate that clears the flag only when the HAL accepted the frame
ValidateClearsOnSuccess(s, d, st) ==
    LET s1 == Hal(s, "validateDisplay", d, NoLayer, NullHandle, st)
        s2 == [s1 EXCEPT !.mv = [s1.mv EXCEPT ![d] = FALSE],
                         !.calls = Append(@, Call("setDisplayMustValidateState", d,
                                    NoLayer, 0, FALSE, NullHandle, HWC2_ERROR_NONE))]
    IN  IF st = HWC2_ERROR_NONE \/ st = HWC2_ERROR_HAS_CHANGES
        THEN setResult(setResult(s2, "changedCompositionTypes", d),
                       "displayRequests", d)
        ELSE setError(s1, mCommandIndex, st)

executeValidateDisplayInternal(s, d, st) ==
    LET s1 == Hal(s, "validateDisplay", d, NoLayer, NullHandle, st)
        s2 == [s1 EXCEPT !.mv = [s1.mv EXCEPT ![d] = FALSE],
                         !.calls = Append(@, Call("setDisplayMustValidateState", d,
                                    NoLayer, 0, FALSE, NullHandle, HWC2_ERROR_NONE))]
    IN  IF st = HWC2_ERROR_NONE \/ st = HWC2_ERROR_HAS_CHANGES
        THEN setResult(setResult(s2, "changedCompositionTypes", d),
                       "displayRequests", d)
        ELSE setError(s2, mCommandIndex, st)

executeValidateDisplay(s, d, st) ==
    executeValidateDisplayInternal(executeSetExpectedPresentTimeInternal(s, d), d, st)

executeAcceptDisplayChanges(s, d, st) ==
    LET s1 == Hal(s, "acceptDisplayChanges", d, NoLayer, NullHandle, st)
    IN  IF Truthy(st) THEN setError(s1, mCommandIndex, st) ELSE s1

\* a present that records its own failure
PresentRecordsError(s, d, st, fenceValid) ==
    LET s1 == Hal(s, "presentDisplay", d, NoLayer, NullHandle, st)
        s2 == IF fenceValid THEN setResult(s1, "presentFence", d) ELSE s1
    IN  IF ~Truthy(st) THEN setResult(s2, "releaseFences", d)
        ELSE setError(s1, mCommandIndex, st)

\* fenceValid: the HAL handed out a present fence other than -1
executePresentDisplay(s, d, st, fenceValid) ==
    LET s1 == Hal(s, "presentDisplay", d, NoLayer, NullHandle, st)
        s2 == IF fenceValid THEN setResult(s1, "presentFence", d) ELSE s1
    IN  IF ~Truthy(st) THEN setResult(s2, "releaseFences", d) ELSE s1

\* o: what the HAL answers to each call the protocol may make:
\*   p1, f1   first presentDisplay: status, fence valid
\*   v        validateDisplay: status
\*   q, cc    getHasClientComposition: status, value written to hasClientComp
\*   a        acceptDisplayChanges: status
\*   p2, f2   second presentDisplay: status, fence valid

\* a present-or-validate that never trusts the flag: it always falls back
PresentAsIsNever(s, d, o) ==
    [s EXCEPT !.calls = Append(@, Call("mustValidateDisplay", d, NoLayer,
                                       0, s.mv[d], NullHandle, HWC2_ERROR_NONE)),
              !.err = EX_NOT_VALIDATED]

\* a present-or-validate that presents without looking at the flag
PresentAsIsUnchecked(s, d, o) ==
    LET s1 == [s EXCEPT !.calls = Append(@, Call("mustValidateDisplay", d, NoLayer,
                                    0, s.mv[d], NullHandle, HWC2_ERROR_NONE))]
    IN  executePresentDisplay(s1, d, o.p1, o.f1)

\* "First try to Present as is": presentErr is left in err
PresentAsIs(s, d, o) ==
    LET s1 == [s EXCEPT !.calls = Append(@, Call("mustValidateDisplay", d, NoLayer,
                                    0, s.mv[d], NullHandle, HWC2_ERROR_NONE))]
    IN  IF s1.mv[d] THEN [s1 EXCEPT !.err = EX_NOT_VALIDATED]
        ELSE executePresentDisplay(s1, d, o.p1, o.f1)

\* a fallback that decides on the client-composition query alone
ClientCompositionOnly(s, d, validateErr, o) ==
    LET s1 == [s EXCEPT !.calls = Append(@,
                   Call("getHasClientComposition", d, NoLayer, 0, o.cc,
                        NullHandle, o.q))]
    IN  [s1 EXCEPT !.err = IF o.q = HWC2_ERROR_NONE /\ o.cc THEN 1 ELSE 0]

\* a fallback that trusts hasClientComp whatever the query returned
HasClientCompUnchecked(s, d, validateErr, o) ==
    IF validateErr = HWC2_ERROR_HAS_CHANGES
    THEN [s EXCEPT !.err = 1]
    ELSE LET s1 == [s EXCEPT !.calls = Append(@,
                        Call("getHasClientComposition", d, NoLayer, 0, o.cc,
                             NullHandle, o.q))]
         IN  [s1 EXCEPT !.err = IF o.cc THEN 1 ELSE 0]

\* cannotPresentDirectly, left in err as 1 or 0; the query is made only when
\* validate did not report changes
CannotPresentDirectly(s, d, validateErr, o) ==
    IF validateErr = HWC2_ERROR_HAS_CHANGES
    THEN [s EXCEPT !.err = 1]
    ELSE LET s1 == [s EXCEPT !.calls = Append(@,
                        Call("getHasClientComposition", d, NoLayer, 0, o.cc,
                             NullHandle, o.q))]
         IN  [s1 EXCEPT !.err = IF o.q = HWC2_ERROR_NONE /\ o.cc THEN 1 ELSE 0]

\* a second attempt that presents before it accepts
PresentThenAccept(s, d, o) ==
    LET s1 == executePresentDisplay(s, d, o.p2, o.f2)
        s2 == executeAcceptDisplayChanges(s1, d, o.a)
    IN  IF ~Truthy(s1.err) THEN setResult(s2, "Presented", d) ELSE s2

\* a second attempt that records the status of a failing present
PresentAgainRecords(s, d, o) ==
    LET s1 == executeAcceptDisplayChanges(s, d, o.a)
        s2 == executePresentDisplay(s1, d, o.p2, o.f2)
    IN  IF ~Truthy(s2.err) THEN setResult(s2, "Presented", d)
        ELSE setError(s2, mCommandIndex, s2.err)

\* a second attempt that gives up when accept fails
PresentAgainIfAccepted(s, d, o) ==
    LET s1 == executeAcceptDisplayChanges(s, d, o.a)
        s2 == executePresentDisplay(s1, d, o.p2, o.f2)
    IN  IF Truthy(s1.err) THEN s1
        ELSE IF ~Truthy(s2.err) THEN setResult(s2, "Presented", d) ELSE s2

\* "Try to call present again": accept, present, publish on success
PresentAgain(s, d, o) ==
    LET s1 == executeAcceptDisplayChanges(s, d, o.a)
        s2 == executePresentDisplay(s1, d, o.p2, o.f2)
    IN  IF ~Truthy(s2.err) THEN setResult(s2, "Presented", d) ELSE s2

\* a present-or-validate without the return after Validated: it goes on to
\* accept and present
PresentOrValidateFallsThrough(s, d, o) ==
    LET s1 == executeSetExpectedPresentTimeInternal(s, d)
        s2 == PresentAsIs(s1, d, o)
    IN  IF ~Truthy(s2.err)
        THEN setResult(s2, "Presented", d)
        ELSE
          LET s3 == executeValidateDisplayInternal(s2, d, o.v)
              validateErr == s3.err
          IN  IF validateErr # HWC2_ERROR_NONE /\ validateErr # HWC2_ERROR_HAS_CHANGES
              THEN s3
              ELSE
                LET s4 == CannotPresentDirectly(s3, d, validateErr, o)
                IN  IF Truthy(s4.err)
                    THEN PresentAgain(setResult(s4, "Validated", d), d, o)
                    ELSE PresentAgain(s4, d, o)

executePresentOrValidateDisplay(s, d, o) ==
    LET s1 == executeSetExpectedPresentTimeInternal(s, d)
        s2 == PresentAsIs(s1, d, o)
    IN  IF ~Truthy(s2.err)
        THEN setResult(s2, "Presented", d)
        ELSE
          LET s3 == executeValidateDisplayInternal(s2, d, o.v)
              validateErr == s3.err
          IN  IF validateErr # HWC2_ERROR_NONE /\ validateErr # HWC2_ERROR_HAS_CHANGES
              THEN s3
              ELSE
                LET s4 == CannotPresentDirectly(s3, d, validateErr, o)
                IN  IF Truthy(s4.err)
                    THEN setResult(s4, "Validated", d)
                    ELSE PresentAgain(s4, d, o)

\* ----------------------------------------------------- layer-level handlers
\* the shape of the fifteen setters that forward one value: call the HAL,
\* record a non-success status
SetLayerValue(s, fn, d, l, st) ==
    LET s1 == Hal(s, fn, d, l, NullHandle, st)
    IN  IF Truthy(st) THEN setError(s1, mCommandIndex, st) ELSE s1

executeSetLayerCursorPosition(s, d, l, st) ==
    SetLayerValue(s, "setLayerCursorPosition", d, l, st)

executeSetLayerSurfaceDamage(s, d, l, st) ==
    SetLayerValue(s, "setLayerSurfaceDamage", d, l, st)

executeSetLayerBlendMode(s, d, l, st) ==
    SetLayerValue(s, "setLayerBlendMode", d, l, st)

executeSetLayerColor(s, d, l, st) ==
    SetLayerValue(s, "setLayerColor", d, l, st)

executeSetLayerComposition(s, d, l, st) ==
    SetLayerValue(s, "setLayerCompositionType", d, l, st)

executeSetLayerDataspace(s, d, l, st) ==
    SetLayerValue(s, "setLayerDataspace", d, l, st)

executeSetLayerDisplayFrame(s, d, l, st) ==
    SetLayerValue(s, "setLayerDisplayFrame", d, l, st)

executeSetLayerPlaneAlpha(s, d, l, st) ==
    SetLayerValue(s, "setLayerPlaneAlpha", d, l, st)

executeSetLayerSourceCrop(s, d, l, st) ==
    SetLayerValue(s, "setLayerSourceCrop", d, l, st)

executeSetLayerTransform(s, d, l, st) ==
    SetLayerValue(s, "setLayerTransform", d, l, st)

executeSetLayerVisibleRegion(s, d, l, st) ==
    SetLayerValue(s, "setLayerVisibleRegion", d, l, st)

executeSetLayerZOrder(s, d, l, st) ==
    SetLayerValue(s, "setLayerZOrder", d, l, st)

executeSetLayerPerFrameMetadata(s, d, l, st) ==
    SetLayerValue(s, "setLayerPerFrameMetadata", d, l, st)

executeSetLayerColorTransform(s, d, l, st) ==
    SetLayerValue(s, "setLayerColorTransform", d, l, st)

executeSetLayerPerFrameMetadataBlobs(s, d, l, st) ==
    SetLayerValue(s, "setLayerPerFrameMetadataBlobs", d, l, st)

executeSetLayerBuffer(s, d, l, slot, h, rst, st) ==
    ResolveThenSet(s, "getLayerBuffer", "layer", "setLayerBuffer",
                   d, l, slot, h, rst, st)

\* garbage: the value the uninitialised local `stream` holds when the resolver
\* fails without writing it.  The HAL setter is called when the resolver's
\* status is non-zero (line 364).
executeSetLayerSidebandStream(s, d, l, h, rst, st, garbage) ==
    LET handle == makeFromAidl(h)
        s1 == getLayerSidebandStream([s EXCEPT !.out = garbage], d, l, handle, rst)
        s2 == IF Truthy(s1.err)
              THEN Hal(s1, "setLayerSidebandStream", d, l, s1.out, st)
              ELSE s1
    IN  IF Truthy(s2.err) THEN setError(s2, mCommandIndex, s2.err) ELSE s2

\* ----------------------------------------------------------- dispatch tables
\* the DISPATCH_* lines of dispatchDisplayCommand, top to bottom
DisplayFields ==
    <<"colorTransformMatrix", "clientTarget", "virtualDisplayOutputBuffer",
      "brightness", "validateDisplay", "acceptDisplayChanges", "presentDisplay",
      "presentOrValidateDisplay">>

\* the DISPATCH_LAYER_COMMAND lines of dispatchLayerCommand, top to bottom
LayerFields ==
    <<"cursorPosition", "buffer", "damage", "blendMode", "color", "composition",
      "dataspace", "displayFrame", "planeAlpha", "sidebandStream", "sourceCrop",
      "transform", "visibleRegion", "z", "colorTransform", "perFrameMetadata",
      "perFrameMetadataBlob">>

\* the fields of a LayerCommand whose handler forwards one value
ValueFields == {LayerFields[i] : i \in 1..Len(LayerFields)} \ {"buffer", "sidebandStream"}

\* field -> executeSetLayer##funcName, as the macro lines pair them
LayerValueHandler(field, s, d, l, st) ==
    CASE field = "cursorPosition" -> executeSetLayerCursorPosition(s, d, l, st)
      [] field = "damage" -> executeSetLayerSurfaceDamage(s, d, l, st)
      [] field = "blendMode" -> executeSetLayerBlendMode(s, d, l, st)
      [] field = "color" -> executeSetLayerColor(s, d, l, st)
      [] field = "composition" -> executeSetLayerComposition(s, d, l, st)
      [] field = "dataspace" -> executeSetLayerDataspace(s, d, l, st)
      [] field = "displayFrame" -> executeSetLayerDisplayFrame(s, d, l, st)
      [] field = "planeAlpha" -> executeSetLayerPlaneAlpha(s, d, l, st)
      [] field = "sourceCrop" -> executeSetLayerSourceCrop(s, d, l, st)
      [] field = "transform" -> executeSetLayerTransform(s, d, l, st)
      [] field = "visibleRegion" -> executeSetLayerVisibleRegion(s, d, l, st)
      [] field = "z" -> executeSetLayerZOrder(s, d, l, st)
      [] field = "colorTransform" -> executeSetLayerColorTransform(s, d, l, st)
      [] field = "perFrameMetadata" -> executeSetLayerPerFrameMetadata(s, d, l, st)
      [] field = "perFrameMetadataBlob" -> executeSetLayerPerFrameMetadataBlobs(s, d, l, st)

\* ------------------------------------------------------------------ actions
Init ==
    /\ pc = "idle"
    /\ batchLen = 0
    /\ it = 0
    /\ mCommandIndex = 0
    /\ display = 0
    /\ nLayers = 0
    /\ layerIt = 0
    /\ layer = NoLayer
    /\ fld = 0
    /\ mWriter = <<>>
    /\ mustValidate \in [Displays -> BOOLEAN]
    /\ cache = [k \in CacheKeys |-> NullHandle]
    /\ result = <<>>
    /\ ret = <<>>
    /\ last = NoStep
    /\ nOps = 0

\* execute without line 66: the index of the previous call is carried over
ExecuteKeepsIndex ==
    /\ pc = "idle"
    /\ nOps < MaxOps
    /\ \E n \in 0..MaxBatch : batchLen' = n
    /\ it' = 0
    /\ result' = <<>>
    /\ pc' = "loop"
    /\ last' = NoStep
    /\ UNCHANGED <<mCommandIndex, display, nLayers, layerIt, layer, fld, mWriter,
                   mustValidate, cache, ret, nOps>>

\* execute, entry: the caller hands in a batch of n commands and a result vector
Execute ==
    /\ pc = "idle"
    /\ nOps < MaxOps
    /\ \E n \in 0..MaxBatch : batchLen' = n
    /\ mCommandIndex' = 0
    /\ it' = 0
    /\ result' = <<>>
    /\ pc' = "loop"
    /\ last' = NoStep
    /\ UNCHANGED <<display, nLayers, layerIt, layer, fld, mWriter, mustValidate,
                   cache, ret, nOps>>

\* a loop that advances the index before it dispatches
ExecuteLoopAdvancesFirst ==
    /\ pc = "loop"
    /\ it < batchLen
    /\ \E d \in Displays, n \in 0..MaxLayers : display' = d /\ nLayers' = n
    /\ layerIt' = 0
    /\ pc' = "layers"
    /\ last' = NoStep
    /\ mCommandIndex' = mCommandIndex + 1
    /\ UNCHANGED <<batchLen, it, layer, fld, mWriter, mustValidate,
                   cache, result, ret, nOps>>

\* execute, loop head: the next command of the batch enters dispatchDisplayCommand
ExecuteLoop ==
    /\ pc = "loop"
    /\ it < batchLen
    /\ \E d \in Displays, n \in 0..MaxLayers : display' = d /\ nLayers' = n
    /\ layerIt' = 0
    /\ pc' = "layers"
    /\ last' = NoStep
    /\ UNCHANGED <<batchLen, it, mCommandIndex, layer, fld, mWriter, mustValidate,
                   cache, result, ret, nOps>>

\* mWriter->getPendingCommandResults(): hands out the entries and leaves none
getPendingCommandResults(w) == [results |-> w, left |-> <<>>]

\* execute that gives up at the first recorded error
ExecuteReturnOnError ==
    /\ pc = "loop"
    /\ it = batchLen \/ \E i \in 1..Len(mWriter) : mWriter[i].type = "error"
    /\ result' = getPendingCommandResults(mWriter).results
    /\ mWriter' = getPendingCommandResults(mWriter).left
    /\ ret' = <<0>>
    /\ pc' = "idle"
    /\ last' = NoStep
    /\ UNCHANGED <<batchLen, it, mCommandIndex, display, nLayers, layerIt, layer,
                   fld, mustValidate, cache, nOps>>

\* execute, after the loop: drain the writer into *result and return 0
ExecuteReturn ==
    /\ pc = "loop"
    /\ it = batchLen
    /\ result' = getPendingCommandResults(mWriter).results
    /\ mWriter' = getPendingCommandResults(mWriter).left
    /\ ret' = <<0>>
    /\ pc' = "idle"
    /\ last' = NoStep
    /\ UNCHANGED <<batchLen, it, mCommandIndex, display, nLayers, layerIt, layer,
                   fld, mustValidate, cache, nOps>>

\* execute, loop tail: ++mCommandIndex and the iterator moves on
ExecuteAdvance ==
    /\ pc = "advance"
    /\ mCommandIndex' = mCommandIndex + 1
    /\ it' = it + 1
    /\ pc' = "loop"
    /\ display' = 0
    /\ nLayers' = 0
    /\ layerIt' = 0
    /\ last' = NoStep
    /\ UNCHANGED <<batchLen, layer, fld, mWriter, mustValidate, cache, result,
                   ret, nOps>>

\* dispatchDisplayCommand, layer loop head: the next LayerCommand enters
\* dispatchLayerCommand
LayerLoop ==
    /\ pc = "layers"
    /\ layerIt < nLayers
    /\ \E l \in Layers : layer' = l
    /\ fld' = 1
    /\ pc' = "layer"
    /\ last' = NoStep
    /\ UNCHANGED <<batchLen, it, mCommandIndex, display, nLayers, layerIt, mWriter,
                   mustValidate, cache, result, ret, nOps>>

\* dispatchDisplayCommand, after the layer loop: on to the display-level lines
LayerLoopEnd ==
    /\ pc = "layers"
    /\ layerIt = nLayers
    /\ fld' = 1
    /\ pc' = "display"
    /\ layer' = NoLayer
    /\ last' = NoStep
    /\ UNCHANGED <<batchLen, it, mCommandIndex, display, nLayers, layerIt,
                   mWriter, mustValidate, cache, result, ret, nOps>>

\* what one DISPATCH_* line leaves behind: s is the engine's view after the
\* handler (S0 when the field is not populated)
Effect(field, populated, s) ==
    /\ mWriter' = s.w
    /\ mustValidate' = s.mv
    /\ cache' = s.c
    /\ last' = [op |-> field, populated |-> populated, calls |-> s.calls,
                wrote |-> SubSeq(s.w, Len(mWriter) + 1, Len(s.w))]
    /\ nOps' = IF populated THEN nOps + 1 ELSE nOps

\* a layer line without the test of the optional: the handler runs on an
\* absent field too
DISPATCH_LAYER_UNCONDITIONAL(field, populated, s) ==
    /\ pc = "layer"
    /\ LayerFields[fld] = field
    /\ Effect(field, populated,
              IF populated THEN s
              ELSE SetLayerValue(S0, "setLayer", display, layer,
                                 HWC2_ERROR_NONE))
    /\ IF fld < Len(LayerFields)
       THEN fld' = fld + 1 /\ pc' = "layer" /\ layerIt' = layerIt
       ELSE fld' = 0 /\ pc' = "layers" /\ layerIt' = layerIt + 1
    /\ UNCHANGED <<batchLen, it, mCommandIndex, display, nLayers, layer, result,
                   ret>>

\* one DISPATCH_LAYER_COMMAND line of dispatchLayerCommand
DISPATCH_LAYER_COMMAND(field, populated, s) ==
    /\ pc = "layer"
    /\ LayerFields[fld] = field
    /\ Effect(field, populated, s)
    /\ IF fld < Len(LayerFields)
       THEN fld' = fld + 1 /\ pc' = "layer" /\ layerIt' = layerIt
       ELSE fld' = 0 /\ pc' = "layers" /\ layerIt' = layerIt + 1
    /\ UNCHANGED <<batchLen, it, mCommandIndex, display, nLayers, layer, result,
                   ret>>

\* the display-level lines as an else-if chain over validate, present and
\* present-or-validate: the first of them that is populated ends the command
DISPATCH_DISPLAY_EXCLUSIVE(field, populated, s) ==
    /\ pc = "display"
    /\ DisplayFields[fld] = field
    /\ Effect(field, populated, s)
    /\ IF fld < Len(DisplayFields)
          /\ ~(populated /\ field \in {"validateDisplay", "presentDisplay"})
       THEN fld' = fld + 1 /\ pc' = "display"
       ELSE fld' = 0 /\ pc' = "advance"
    /\ UNCHANGED <<batchLen, it, mCommandIndex, display, nLayers, layerIt, layer,
                   result, ret>>

\* one DISPATCH_DISPLAY_* line of dispatchDisplayCommand
DISPATCH_DISPLAY_COMMAND(field, populated, s) ==
    /\ pc = "display"
    /\ DisplayFields[fld] = field
    /\ Effect(field, populated, s)
    /\ IF fld < Len(DisplayFields)
       THEN fld' = fld + 1 /\ pc' = "display"
       ELSE fld' = 0 /\ pc' = "advance"
    /\ UNCHANGED <<batchLen, it, mCommandIndex, display, nLayers, layerIt, layer,
                   result, ret>>

\* the value-forwarding lines of dispatchLayerCommand
DispatchLayerValue ==
    /\ pc = "layer"
    /\ \E field \in ValueFields :
         \/ DISPATCH_LAYER_COMMAND(field, FALSE, S0)
         \/ /\ nOps < MaxOps
            /\ \E st \in HalStatus :
                 DISPATCH_LAYER_COMMAND(field, TRUE,
                     LayerValueHandler(field, S0, display, layer, st))

DispatchLayerBuffer ==
    /\ pc = "layer"
    /\ \/ DISPATCH_LAYER_COMMAND("buffer", FALSE, S0)
       \/ /\ nOps < MaxOps
          /\ \E slot \in Slots, h \in Handles \cup {NullHandle},
                rst \in ResolverStatus, st \in HalStatus :
               DISPATCH_LAYER_COMMAND("buffer", TRUE,
                   executeSetLayerBuffer(S0, display, layer, slot, h, rst, st))

DispatchLayerSidebandStream ==
    /\ pc = "layer"
    /\ \/ DISPATCH_LAYER_COMMAND("sidebandStream", FALSE, S0)
       \/ /\ nOps < MaxOps
          /\ \E h \in Handles, rst \in ResolverStatus, st \in HalStatus,
                garbage \in Handles \cup {NullHandle} :
               DISPATCH_LAYER_COMMAND("sidebandStream", TRUE,
                   executeSetLayerSidebandStream(S0, display, layer, h, rst, st,
                                                 garbage))

DispatchColorTransform ==
    /\ pc = "display"
    /\ \/ DISPATCH_DISPLAY_COMMAND("colorTransformMatrix", FALSE, S0)
       \/ /\ nOps < MaxOps
          /\ \E st \in HalStatus :
               DISPATCH_DISPLAY_COMMAND("colorTransformMatrix", TRUE,
                   executeSetColorTransform(S0, display, st))

DispatchClientTarget ==
    /\ pc = "display"
    /\ \/ DISPATCH_DISPLAY_COMMAND("clientTarget", FALSE, S0)
       \/ /\ nOps < MaxOps
          /\ \E slot \in Slots, h \in Handles \cup {NullHandle},
                rst \in ResolverStatus, st \in HalStatus :
               DISPATCH_DISPLAY_COMMAND("clientTarget", TRUE,
                   executeSetClientTarget(S0, display, slot, h, rst, st))

DispatchOutputBuffer ==
    /\ pc = "display"
    /\ \/ DISPATCH_DISPLAY_COMMAND("virtualDisplayOutputBuffer", FALSE, S0)
       \/ /\ nOps < MaxOps
          /\ \E slot \in Slots, h \in Handles \cup {NullHandle},
                rst \in ResolverStatus, st \in HalStatus :
               DISPATCH_DISPLAY_COMMAND("virtualDisplayOutputBuffer", TRUE,
                   executeSetOutputBuffer(S0, display, slot, h, rst, st))

DispatchBrightness ==
    /\ pc = "display"
    /\ \/ DISPATCH_DISPLAY_COMMAND("brightness", FALSE, S0)
       \/ /\ nOps < MaxOps
          /\ \E st \in HalStatus :
               DISPATCH_DISPLAY_COMMAND("brightness", TRUE,
                   executeSetDisplayBrightness(S0, display, st))

DispatchValidateDisplay ==
    /\ pc = "display"
    /\ \/ DISPATCH_DISPLAY_COMMAND("validateDisplay", FALSE, S0)
       \/ /\ nOps < MaxOps
          /\ \E st \in ValidateStatus :
               DISPATCH_DISPLAY_COMMAND("validateDisplay", TRUE,
                   executeValidateDisplay(S0, display, st))

DispatchAcceptDisplayChanges ==
    /\ pc = "display"
    /\ \/ DISPATCH_DISPLAY_COMMAND("acceptDisplayChanges", FALSE, S0)
       \/ /\ nOps < MaxOps
          /\ \E st \in HalStatus :
               DISPATCH_DISPLAY_COMMAND("acceptDisplayChanges", TRUE,
                   executeAcceptDisplayChanges(S0, display, st))

DispatchPresentDisplay ==
    /\ pc = "display"
    /\ \/ DISPATCH_DISPLAY_COMMAND("presentDisplay", FALSE, S0)
       \/ /\ nOps < MaxOps
          /\ \E st \in HalStatus, fenceValid \in BOOLEAN :
               DISPATCH_DISPLAY_COMMAND("presentDisplay", TRUE,
                   executePresentDisplay(S0, display, st, fenceValid))

\* the answers the HAL can give during one present-or-validate
Oracles ==
    [p1 : HalStatus, f1 : BOOLEAN, v : ValidateStatus, q : HalStatus,
     cc : BOOLEAN, a : HalStatus, p2 : HalStatus, f2 : BOOLEAN]

DispatchPresentOrValidateDisplay ==
    /\ pc = "display"
    /\ \/ DISPATCH_DISPLAY_COMMAND("presentOrValidateDisplay", FALSE, S0)
       \/ /\ nOps < MaxOps
          /\ \E o \in Oracles :
               DISPATCH_DISPLAY_COMMAND("presentOrValidateDisplay", TRUE,
                   executePresentOrValidateDisplay(S0, display, o))

Next ==
    \/ Execute
    \/ ExecuteLoop
    \/ ExecuteAdvance
    \/ ExecuteReturn
    \/ LayerLoop
    \/ LayerLoopEnd
    \/ DispatchLayerValue
    \/ DispatchLayerBuffer
    \/ DispatchLayerSidebandStream
    \/ DispatchColorTransform
    \/ DispatchClientTarget
    \/ DispatchOutputBuffer
    \/ DispatchBrightness
    \/ DispatchValidateDisplay
    \/ DispatchAcceptDisplayChanges
    \/ DispatchPresentDisplay
    \/ DispatchPresentOrValidateDisplay

Spec == Init /\ [][Next]_vars

\* ------------------------------------------------------------------ claims
\* the thread is inside dispatchDisplayCommand
Dispatching == pc \in {"layers", "layer", "display"}

\* C1: in every execute call the k-th DisplayCommand (0-based) is dispatched
\* while mCommandIndex = k: the index is 0 when a call starts (the first call
\* and every later one), goes up by exactly one after each command, and
\* changes at no other point of the call.
C1_CommandIndexIsPosition ==
    /\ [](Dispatching => mCommandIndex = it)
    /\ [][/\ (pc = "idle" /\ pc' # "idle") => mCommandIndex' = 0
          /\ (pc = "advance") => mCommandIndex' = mCommandIndex + 1
          /\ (pc \notin {"idle", "advance"}) => mCommandIndex' = mCommandIndex]_vars

\* C1 witness: a later call (an earlier one has returned) is dispatching its
\* second command
C1_Witness ==
    ret = <<0>> /\ pc = "display" /\ it = 1 /\ mCommandIndex = 1

\* C2: no failure aborts the batch: a call returns only from the loop head
\* with every command of the batch dispatched, it then hands the writer's
\* entries to *result and returns 0; until then the call can always take a
\* step, whatever the HAL and the resolver answered.
C2_NoFailureAbortsBatch ==
    /\ [](it <= batchLen)
    /\ [](pc # "idle" => ENABLED Next)
    /\ [][(pc # "idle" /\ pc' = "idle") =>
            /\ pc = "loop"
            /\ it = batchLen
            /\ result' = mWriter
            /\ ret' = <<0>>]_vars

\* C2 witness: a call of a two-command batch has returned 0 with an error
\* entry of its first command in the result
C2_Witness ==
    /\ pc = "idle" /\ ret = <<0>> /\ batchLen = 2 /\ it = 2
    /\ \E i \in 1..Len(result) : result[i].type = "error" /\ result[i].index = 0

\* ---- helpers of the claims below
InSeq(e, seq) == \E i \in 1..Len(seq) : seq[i] = e

\* the calls of a step on mResources (all others are calls on mHal)
ResourceFns ==
    {"getDisplayClientTarget", "getDisplayOutputBuffer", "getLayerBuffer",
     "getLayerSidebandStream", "mustValidateDisplay", "setDisplayMustValidateState"}

HalCalls(calls) == SelectSeq(calls, LAMBDA c : c.fn \notin ResourceFns)

CallsTo(calls, fn) == SelectSeq(calls, LAMBDA c : c.fn = fn)

Count(calls, fn) == Len(CallsTo(calls, fn))

\* position of the first call to fn (0 when there is none)
FirstAt(calls, fn) ==
    IF Count(calls, fn) = 0 THEN 0
    ELSE CHOOSE i \in 1..Len(calls) :
           calls[i].fn = fn /\ \A j \in 1..(i - 1) : calls[j].fn # fn

\* a display-level line has just been taken
DisplayLineTaken == pc \in {"display", "advance"} /\ last.op # "none"

\* a layer line has just been taken
LayerLineTaken == pc \in {"layer", "layers"} /\ last.op # "none"

\* C3: the order the claim states, and the first call each field's handler makes
C3_Order ==
    <<"colorTransformMatrix", "clientTarget", "virtualDisplayOutputBuffer",
      "brightness", "validateDisplay", "acceptDisplayChanges", "presentDisplay",
      "presentOrValidateDisplay">>

C3_FirstCall ==
    <<"setColorTransform", "getDisplayClientTarget", "getDisplayOutputBuffer",
      "setDisplayBrightness", "setExpectedPresentTime", "acceptDisplayChanges",
      "presentDisplay", "setExpectedPresentTime">>

\* the line of dispatchDisplayCommand just taken (0: none yet)
C3_LineTaken == IF pc = "advance" THEN 8 ELSE fld - 1

\* C3: for one DisplayCommand all LayerCommands are dispatched first, in list
\* order, each to its last line; only then the display-level lines run, and
\* the k-th line taken is the k-th of colour transform, client target, output
\* buffer, brightness, validate, accept-changes, present, present-or-validate
\* (so the command is left only after present-or-validate, whatever validate
\* and present did); a populated field makes its handler's first call on the
\* command's display, an unpopulated one makes no call and writes nothing.
C3_LayersThenDisplayFieldsInOrder ==
    /\ (pc = "layer") => layerIt < nLayers
    /\ (pc = "layers" /\ layerIt > 0) => last.op = "perFrameMetadataBlob"
    /\ (pc \in {"display", "advance"}) =>
         /\ layerIt = nLayers
         /\ IF C3_LineTaken = 0 THEN last.op = "none"
            ELSE /\ last.op = C3_Order[C3_LineTaken]
                 /\ last.populated =>
                      /\ Len(last.calls) > 0
                      /\ last.calls[1].fn = C3_FirstCall[C3_LineTaken]
                      /\ last.calls[1].display = display
                 /\ ~last.populated => (last.calls = <<>> /\ last.wrote = <<>>)

\* C3 witness: the first command of a batch had its validate flag and its
\* present-or-validate flag set; validate published its data, then
\* present-or-validate ran (and presented without validating again)
C3_Witness ==
    /\ pc = "advance" /\ it = 0
    /\ last.op = "presentOrValidateDisplay" /\ last.populated
    /\ Count(last.calls, "validateDisplay") = 0
    /\ Len(mWriter) >= 3
    /\ mWriter[1].type = "changedCompositionTypes"
    /\ mWriter[Len(mWriter)].type = "Presented"

\* C4: the fields the claim lists, the HAL call each makes
C4_HalCall(field) ==
    CASE field = "colorTransformMatrix" -> "setColorTransform"
      [] field = "clientTarget" -> "setClientTarget"
      [] field = "virtualDisplayOutputBuffer" -> "setOutputBuffer"
      [] field = "brightness" -> "setDisplayBrightness"
      [] field = "validateDisplay" -> "validateDisplay"
      [] field = "acceptDisplayChanges" -> "acceptDisplayChanges"
      [] field = "presentDisplay" -> "presentDisplay"

C4_Failed(field, status) ==
    IF field = "validateDisplay"
    THEN status \notin {HWC2_ERROR_NONE, HWC2_ERROR_HAS_CHANGES}
    ELSE status # HWC2_ERROR_NONE

\* C4: whenever the HAL call made for a populated colour-transform,
\* client-target, output-buffer, brightness, validate, accept-changes or
\* present field returns a non-success status, an error entry with the
\* current command index and that status is recorded, and the command goes
\* on to its next line.
C4_EveryFailureRecorded ==
    (DisplayLineTaken /\ last.populated /\ last.op # "presentOrValidateDisplay") =>
       \A i \in 1..Len(last.calls) :
          (/\ last.calls[i].fn = C4_HalCall(last.op)
           /\ C4_Failed(last.op, last.calls[i].status)) =>
              /\ InSeq(Entry("error", mCommandIndex, 0, last.calls[i].status),
                       last.wrote)
              /\ pc = "display" /\ C3_Order[fld - 1] = last.op

\* C5: the order the claim states, and the HAL setter of each field
C5_Order ==
    <<"cursorPosition", "buffer", "damage", "blendMode", "color", "composition",
      "dataspace", "displayFrame", "planeAlpha", "sidebandStream", "sourceCrop",
      "transform", "visibleRegion", "z", "colorTransform", "perFrameMetadata",
      "perFrameMetadataBlob">>

C5_Setter ==
    <<"setLayerCursorPosition", "setLayerBuffer", "setLayerSurfaceDamage",
      "setLayerBlendMode", "setLayerColor", "setLayerCompositionType",
      "setLayerDataspace", "setLayerDisplayFrame", "setLayerPlaneAlpha",
      "setLayerSidebandStream", "setLayerSourceCrop", "setLayerTransform",
      "setLayerVisibleRegion", "setLayerZOrder", "setLayerColorTransform",
      "setLayerPerFrameMetadata", "setLayerPerFrameMetadataBlobs">>

\* the line of dispatchLayerCommand just taken
C5_LineTaken == IF pc = "layers" THEN 17 ELSE fld - 1

\* the resolver call of a step succeeded (or the step made none)
ResolvedOk(calls) ==
    \A i \in 1..Len(calls) : calls[i].fn \in ResourceFns => calls[i].status = 0

\* C5: the layer lines run in the stated order, and every populated field
\* makes exactly one HAL call, the setter of that field, with the command's
\* display and layer; for buffer and sideband stream, whenever the
\* resolution succeeds.
C5_OneSetterPerPopulatedField ==
    LayerLineTaken =>
       /\ last.op = C5_Order[C5_LineTaken]
       /\ (last.populated /\ ResolvedOk(last.calls)) =>
            LET hal == HalCalls(last.calls)
            IN  /\ Len(hal) = 1
                /\ hal[1].fn = C5_Setter[C5_LineTaken]
                /\ hal[1].display = display
                /\ hal[1].layer = layer

\* C6: the resolved fields, their resolver and their HAL setter
C6_Resolved ==
    {<<"clientTarget", "getDisplayClientTarget", "setClientTarget">>,
     <<"virtualDisplayOutputBuffer", "getDisplayOutputBuffer", "setOutputBuffer">>,
     <<"buffer", "getLayerBuffer", "setLayerBuffer">>,
     <<"sidebandStream", "getLayerSidebandStream", "setLayerSidebandStream">>}

C6_Kind(field) ==
    CASE field = "clientTarget" -> "client"
      [] field = "virtualDisplayOutputBuffer" -> "output"
      [] OTHER -> "layer"

\* the handle a successful resolver call r hands back: the cached one when
\* the cached value was asked for, else the supplied one
C6_Handle(r, field) ==
    IF r.flag THEN cache[<<C6_Kind(field), r.display, r.layer, r.slot>>]
    ELSE r.handle

\* C6: for client target, output buffer, layer buffer and sideband stream:
\* when the resolution fails, an error with the resolver's status is
\* recorded against the current command index and the HAL setter is not
\* called; when it succeeds, the HAL setter is called with the resolved
\* handle.
C6_ResolveGuardsSetter ==
    \A f \in C6_Resolved :
       ((DisplayLineTaken \/ LayerLineTaken) /\ last.op = f[1] /\ last.populated) =>
          LET r == CallsTo(last.calls, f[2])[1]
              set == CallsTo(last.calls, f[3])
          IN  IF r.status # 0
              THEN /\ InSeq(Entry("error", mCommandIndex, 0, r.status), last.wrote)
                   /\ Len(set) = 0
              ELSE /\ Len(set) = 1
                   /\ set[1].handle = C6_Handle(r, f[1])

\* ---- present-or-validate: a step has just run it; what it read and published
PovTaken == pc = "advance" /\ last.op = "presentOrValidateDisplay" /\ last.populated

\* the must-validate flag the step read
PovMustValidate == CallsTo(last.calls, "mustValidateDisplay")[1].flag

Outcomes(entries) ==
    SelectSeq(entries, LAMBDA e : e.type \in {"Presented", "Validated"})

\* C7: fast path: the must-validate flag of the display is false and the HAL
\* present succeeds: Presented is published for the display (and no other
\* outcome), present is called exactly once, validate, the client-composition
\* query and accept are not called.
C7_FastPathPresents ==
    (/\ PovTaken
     /\ ~PovMustValidate
     /\ Count(last.calls, "presentDisplay") > 0
     /\ CallsTo(last.calls, "presentDisplay")[1].status = 0) =>
       /\ Outcomes(last.wrote) = <<Entry("Presented", 0, display, 0)>>
       /\ Count(last.calls, "presentDisplay") = 1
       /\ Count(last.calls, "validateDisplay") = 0
       /\ Count(last.calls, "getHasClientComposition") = 0
       /\ Count(last.calls, "acceptDisplayChanges") = 0

\* C7 witness: a present-or-validate found the flag clear, presented once and
\* published Presented
C7_Witness ==
    /\ PovTaken
    /\ ~PovMustValidate
    /\ Count(last.calls, "presentDisplay") = 1
    /\ CallsTo(last.calls, "presentDisplay")[1].status = 0
    /\ mWriter[Len(mWriter)] = Entry("Presented", 0, display, 0)

\* C8: the must-validate flag is true and validate returns "has changes":
\* Validated is published, and neither present nor accept is called.
C8_HasChangesValidates ==
    (/\ PovTaken
     /\ PovMustValidate
     /\ Count(last.calls, "validateDisplay") > 0
     /\ CallsTo(last.calls, "validateDisplay")[1].status = HWC2_ERROR_HAS_CHANGES) =>
       /\ Outcomes(last.wrote) = <<Entry("Validated", 0, display, 0)>>
       /\ Count(last.calls, "presentDisplay") = 0
       /\ Count(last.calls, "acceptDisplayChanges") = 0

\* C8 witness: a present-or-validate found the flag set, validate reported
\* changes and Validated was published
C8_Witness ==
    /\ PovTaken
    /\ PovMustValidate
    /\ CallsTo(last.calls, "validateDisplay")[1].status = HWC2_ERROR_HAS_CHANGES
    /\ mWriter[Len(mWriter)] = Entry("Validated", 0, display, 0)

\* C9: the must-validate flag is true, validate returns "no changes" and the
\* client-composition query reports false: accept and present are each
\* called exactly once, accept before present, and if that present succeeds
\* Presented is published.
C9_NoChangesAcceptsThenPresents ==
    (/\ PovTaken
     /\ PovMustValidate
     /\ Count(last.calls, "validateDisplay") > 0
     /\ CallsTo(last.calls, "validateDisplay")[1].status = HWC2_ERROR_NONE
     /\ Count(last.calls, "getHasClientComposition") > 0
     /\ CallsTo(last.calls, "getHasClientComposition")[1].status = HWC2_ERROR_NONE
     /\ ~CallsTo(last.calls, "getHasClientComposition")[1].flag) =>
       /\ Count(last.calls, "acceptDisplayChanges") = 1
       /\ Count(last.calls, "presentDisplay") = 1
       /\ FirstAt(last.calls, "acceptDisplayChanges")
            < FirstAt(last.calls, "presentDisplay")
       /\ (CallsTo(last.calls, "presentDisplay")[1].status = 0) =>
            Outcomes(last.wrote) = <<Entry("Presented", 0, display, 0)>>

\* C9 witness: flag set, validate "no changes", query false, accept, present
\* succeeded, Presented published
C9_Witness ==
    /\ PovTaken
    /\ PovMustValidate
    /\ CallsTo(last.calls, "validateDisplay")[1].status = HWC2_ERROR_NONE
    /\ Count(last.calls, "getHasClientComposition") = 1
    /\ ~CallsTo(last.calls, "getHasClientComposition")[1].flag
    /\ Count(last.calls, "acceptDisplayChanges") = 1
    /\ CallsTo(last.calls, "presentDisplay")[1].status = 0
    /\ mWriter[Len(mWriter)] = Entry("Presented", 0, display, 0)

\* ---- the command indices of the error entries, in emission order
ErrorIndices(entries) ==
    LET errs == SelectSeq(entries, LAMBDA e : e.type = "error")
    IN  [i \in 1..Len(errs) |-> errs[i].index]

InRange(idx) == \A i \in 1..Len(idx) : 0 <= idx[i] /\ idx[i] < batchLen

Errors(entries) == SelectSeq(entries, LAMBDA e : e.type = "error")

ValidateData(entries) ==
    SelectSeq(entries,
              LAMBDA e : e.type \in {"changedCompositionTypes", "displayRequests"})

\* the errors the accept calls of a step account for
AcceptErrors(calls) ==
    LET failed == SelectSeq(calls, LAMBDA c : c.fn = "acceptDisplayChanges"
                                              /\ c.status # HWC2_ERROR_NONE)
    IN  [i \in 1..Len(failed) |-> Entry("error", mCommandIndex, 0, failed[i].status)]

\* C11: a step that called HAL validate (through the validate flag or through
\* the present-or-validate fallback): when the status is "no changes" or "has
\* changes" the display's must-validate flag is clear afterwards, the
\* changed-composition types and then the display requests are published for
\* the display, and validate records no error (the only errors of the step
\* are those of a failing accept); on any other status an error with that
\* status and the current command index is recorded and neither datum is
\* published.
C11_ValidatePublishesOrRecords ==
    (DisplayLineTaken /\ Count(last.calls, "validateDisplay") > 0) =>
       LET st == CallsTo(last.calls, "validateDisplay")[1].status
       IN  IF st \in {HWC2_ERROR_NONE, HWC2_ERROR_HAS_CHANGES}
           THEN /\ ~mustValidate[display]
                /\ ValidateData(last.wrote)
                     = <<Entry("changedCompositionTypes", 0, display, 0),
                         Entry("displayRequests", 0, display, 0)>>
                /\ Errors(last.wrote) = AcceptErrors(last.calls)
           ELSE /\ Errors(last.wrote) = <<Entry("error", mCommandIndex, 0, st)>>
                /\ ValidateData(last.wrote) = <<>>

\* C11 witness: the second command of a batch set its validate flag and the
\* HAL returned a hard error, recorded with index 1
C11_Witness ==
    /\ pc = "display" /\ last.op = "validateDisplay" /\ last.populated
    /\ mCommandIndex = 1
    /\ CallsTo(last.calls, "validateDisplay")[1].status = HWC2_ERROR_BAD_DISPLAY
    /\ last.wrote = <<Entry("error", 1, 0, HWC2_ERROR_BAD_DISPLAY)>>

\* ---- present-or-validate: the calls of the step after its validate
AfterValidate(calls) ==
    SubSeq(calls, FirstAt(calls, "validateDisplay") + 1, Len(calls))

\* C12: present-or-validate publishes no outcome and invents no error
\* (a) when the fallback validate returns a hard error: the step ends with no
\* Presented or Validated, no client-composition query, accept or present
\* after the validate, and the only error is the one validate recorded;
\* (b) when the present that follows accept fails: no Presented or Validated
\* is published and no error is recorded for it (the only errors of the step
\* are those of a failing accept).
C12_NoOutcomeInvented ==
    (PovTaken /\ Count(last.calls, "validateDisplay") > 0) =>
       LET v == CallsTo(last.calls, "validateDisplay")[1].status
           after == AfterValidate(last.calls)
       IN  /\ (v \notin {HWC2_ERROR_NONE, HWC2_ERROR_HAS_CHANGES}) =>
                /\ Outcomes(last.wrote) = <<>>
                /\ HalCalls(after) = <<>>
                /\ Errors(last.wrote) = <<Entry("error", mCommandIndex, 0, v)>>
           /\ (/\ Count(after, "acceptDisplayChanges") > 0
               /\ Count(after, "presentDisplay") > 0
               /\ CallsTo(after, "presentDisplay")[1].status # HWC2_ERROR_NONE) =>
                /\ Outcomes(last.wrote) = <<>>
                /\ Errors(last.wrote) = AcceptErrors(last.calls)

\* C12 witness: the flag was set, validate found no changes, the query said no
\* client composition, accept succeeded and the present after it failed: the
\* step wrote the validate data and nothing else
C12_Witness ==
    /\ PovTaken /\ PovMustValidate
    /\ Count(last.calls, "acceptDisplayChanges") = 1
    /\ CallsTo(last.calls, "acceptDisplayChanges")[1].status = HWC2_ERROR_NONE
    /\ Count(last.calls, "presentDisplay") = 1
    /\ CallsTo(last.calls, "presentDisplay")[1].status = HWC2_ERROR_BAD_DISPLAY
    /\ last.wrote = <<Entry("changedCompositionTypes", 0, display, 0),
                      Entry("displayRequests", 0, display, 0)>>

\* ---- buffer resolution
\* C13: the fields resolved through a slot cache, their resolver and setter
C13_Resolved ==
    {<<"clientTarget", "getDisplayClientTarget", "setClientTarget">>,
     <<"virtualDisplayOutputBuffer", "getDisplayOutputBuffer", "setOutputBuffer">>,
     <<"buffer", "getLayerBuffer", "setLayerBuffer">>}

\* C13: the engine asks for the cached value exactly when it has no handle to
\* pass (useCache = true with nullptr, else the supplied handle, for
\* adoption); with a cache that stores the adopted handle per (display,
\* layer or target, slot), a successful resolution hands the HAL setter the
\* handle the slot holds afterwards: the supplied one when there was one,
\* else the one most recently adopted for that slot (never nullptr).
C13_CachedHandleRoundTrip ==
    \A f \in C13_Resolved :
       ((DisplayLineTaken \/ LayerLineTaken) /\ last.op = f[1] /\ last.populated) =>
          LET r == CallsTo(last.calls, f[2])[1]
              set == CallsTo(last.calls, f[3])
              key == <<C6_Kind(f[1]), r.display, r.layer, r.slot>>
          IN  /\ r.flag <=> (r.handle = NullHandle)
              /\ (r.status = HWC2_ERROR_NONE) =>
                   /\ Len(set) = 1
                   /\ set[1].handle = cache[key]
                   /\ cache[key] # NullHandle
                   /\ ~r.flag => cache[key] = r.handle

\* C13 witness: in the first execution, the first command set a client
\* target with handle 2 and the second one named the slot with no handle:
\* setClientTarget got handle 2 again
C13_Witness ==
    /\ ret = <<>> /\ mCommandIndex = 1 /\ nOps = 2
    /\ pc = "display" /\ last.op = "clientTarget" /\ last.populated
    /\ CallsTo(last.calls, "getDisplayClientTarget")[1].flag
    /\ Count(last.calls, "setClientTarget") = 1
    /\ CallsTo(last.calls, "setClientTarget")[1].handle = 2

\* ---- layer commands
\* C14: while a LayerCommand is dispatched, a line whose optional field is
\* not populated (and the loop steps around the lines) makes no call on the
\* HAL or the Resource Cache, writes no entry, and leaves the writer, the
\* must-validate flags, the cache and the command index as they were; so a
\* LayerCommand with no field populated, seventeen such lines, changes
\* nothing.
C14_EmptyLayerCommandIsNoOp ==
    [][(pc \in {"layers", "layer"} /\ ~last'.populated) =>
          /\ last'.calls = <<>>
          /\ last'.wrote = <<>>
          /\ mWriter' = mWriter
          /\ mustValidate' = mustValidate
          /\ cache' = cache
          /\ mCommandIndex' = mCommandIndex]_vars

\* C14 witness: the first LayerCommand of the first execution has been
\* dispatched to its last line with no field populated; the writer is empty
\* and the display still has to be validated
C14_Witness ==
    /\ ret = <<>> /\ nOps = 0
    /\ pc = "layers" /\ layerIt = 1
    /\ last.op = "perFrameMetadataBlob" /\ ~last.populated
    /\ mWriter = <<>>
    /\ mustValidate[display]

\* C15: in the fallback of present-or-validate, after a validate that
\* returned "no changes" or "has changes": the client-composition query is
\* made exactly when validate returned "no changes"; Validated is published,
\* and neither accept nor present is called, if and only if validate
\* returned "has changes" or the query succeeded and reported true; in every
\* other case (a failed query included) accept is called once and then
\* present once.
C15_ValidatedIffCannotPresent ==
    (/\ PovTaken
     /\ Count(last.calls, "validateDisplay") > 0
     /\ CallsTo(last.calls, "validateDisplay")[1].status
          \in {HWC2_ERROR_NONE, HWC2_ERROR_HAS_CHANGES}) =>
       LET v == CallsTo(last.calls, "validateDisplay")[1].status
           after == AfterValidate(last.calls)
           q == CallsTo(after, "getHasClientComposition")
           cannot == \/ v = HWC2_ERROR_HAS_CHANGES
                     \/ Len(q) > 0 /\ q[1].status = HWC2_ERROR_NONE /\ q[1].flag
       IN  /\ Len(q) = IF v = HWC2_ERROR_HAS_CHANGES THEN 0 ELSE 1
           /\ InSeq(Entry("Validated", 0, display, 0), last.wrote) <=> cannot
           /\ cannot =>
                /\ Count(after, "acceptDisplayChanges") = 0
                /\ Count(after, "presentDisplay") = 0
           /\ ~cannot =>
                /\ Count(after, "acceptDisplayChanges") = 1
                /\ Count(after, "presentDisplay") = 1
                /\ FirstAt(after, "acceptDisplayChanges")
                     < FirstAt(after, "presentDisplay")

\* C15 witness: validate found no changes, the query failed while writing
\* true to hasClientComp: accept and present were called, Validated was not
\* published
C15_Witness ==
    /\ PovTaken
    /\ Count(last.calls, "validateDisplay") = 1
    /\ CallsTo(last.calls, "validateDisplay")[1].status = HWC2_ERROR_NONE
    /\ Count(last.calls, "getHasClientComposition") = 1
    /\ CallsTo(last.calls, "getHasClientComposition")[1].status
         = HWC2_ERROR_BAD_DISPLAY
    /\ CallsTo(last.calls, "getHasClientComposition")[1].flag
    /\ Count(last.calls, "acceptDisplayChanges") = 1
    /\ Count(AfterValidate(last.calls), "presentDisplay") = 1
    /\ ~InSeq(Entry("Validated", 0, display, 0), last.wrote)

\* position of entry e in seq (0 when absent)
IndexOf(e, seq) ==
    IF InSeq(e, seq) THEN CHOOSE i \in 1..Len(seq) : seq[i] = e ELSE 0

\* C16: a failing accept never blocks a present.  Inside present-or-validate:
\* when the auto-accept returns a non-success status, an error with that
\* status and the current command index is recorded, present is still called
\* after it, and when that present succeeds Presented is published after the
\* error.  For the flags of one command: the accept-changes line records the
\* error exactly when accept fails and is always followed by the present
\* line, and a populated present line always calls HAL present once.
C16_FailedAcceptDoesNotBlockPresent ==
    /\ (PovTaken /\ Count(last.calls, "acceptDisplayChanges") > 0) =>
          LET a == CallsTo(last.calls, "acceptDisplayChanges")[1].status
              after == SubSeq(last.calls,
                              FirstAt(last.calls, "acceptDisplayChanges") + 1,
                              Len(last.calls))
              err == Entry("error", mCommandIndex, 0, a)
              presented == Entry("Presented", 0, display, 0)
          IN  /\ Count(after, "presentDisplay") = 1
              /\ (a # HWC2_ERROR_NONE) =>
                    /\ InSeq(err, last.wrote)
                    /\ (CallsTo(after, "presentDisplay")[1].status = HWC2_ERROR_NONE) =>
                          /\ InSeq(presented, last.wrote)
                          /\ IndexOf(err, last.wrote) < IndexOf(presented, last.wrote)
    /\ (DisplayLineTaken /\ last.op = "acceptDisplayChanges" /\ last.populated) =>
          LET a == CallsTo(last.calls, "acceptDisplayChanges")[1].status
          IN  /\ Errors(last.wrote)
                   = IF a # HWC2_ERROR_NONE
                     THEN <<Entry("error", mCommandIndex, 0, a)>> ELSE <<>>
              /\ pc = "display" /\ DisplayFields[fld] = "presentDisplay"
    /\ (DisplayLineTaken /\ last.op = "presentDisplay" /\ last.populated) =>
          Count(last.calls, "presentDisplay") = 1

\* C16 witness: the auto-accept of a present-or-validate failed and the
\* present after it succeeded: the command carries the error and Presented
C16_Witness ==
    /\ PovTaken
    /\ Count(last.calls, "acceptDisplayChanges") = 1
    /\ CallsTo(last.calls, "acceptDisplayChanges")[1].status = HWC2_ERROR_BAD_DISPLAY
    /\ CallsTo(last.calls, "presentDisplay")[1].status = HWC2_ERROR_NONE
    /\ InSeq(Entry("error", mCommandIndex, 0, HWC2_ERROR_BAD_DISPLAY), last.wrote)
    /\ mWriter[Len(mWriter)] = Entry("Presented", 0, display, 0)

\* ---- present
Fences(entries) ==
    SelectSeq(entries, LAMBDA e : e.type \in {"presentFence", "releaseFences"})

\* the error a hard-failed validate of the step accounts for
ValidateErrors(calls) ==
    LET failed == SelectSeq(calls, LAMBDA c : c.fn = "validateDisplay"
                     /\ c.status \notin {HWC2_ERROR_NONE, HWC2_ERROR_HAS_CHANGES})
    IN  [i \in 1..Len(failed) |-> Entry("error", mCommandIndex, 0, failed[i].status)]

\* C17: the present operation records the release fences of the display,
\* preceded by the present fence when that is valid, if and only if HAL
\* present returned success, and never an error.  A present line whose HAL
\* call fails writes nothing; in a present-or-validate step there are as
\* many release-fence entries as successful presents and every error is that
\* of validate or of accept.
C17_PresentRecordsFencesOnlyOnSuccess ==
    /\ (DisplayLineTaken /\ last.op = "presentDisplay" /\ last.populated) =>
          LET st == CallsTo(last.calls, "presentDisplay")[1].status
              pf == Entry("presentFence", 0, display, 0)
              rf == Entry("releaseFences", 0, display, 0)
          IN  IF st = HWC2_ERROR_NONE
              THEN last.wrote \in {<<rf>>, <<pf, rf>>}
              ELSE last.wrote = <<>>
    /\ PovTaken =>
          LET ok == SelectSeq(last.calls, LAMBDA c : c.fn = "presentDisplay"
                                                   /\ c.status = HWC2_ERROR_NONE)
              rf == SelectSeq(last.wrote, LAMBDA e : e.type = "releaseFences")
              pf == SelectSeq(last.wrote, LAMBDA e : e.type = "presentFence")
          IN  /\ Len(rf) = Len(ok)
              /\ Len(pf) <= Len(rf)
              /\ \A i \in 1..Len(Fences(last.wrote)) :
                    Fences(last.wrote)[i].display = display
              /\ Errors(last.wrote)
                   = ValidateErrors(last.calls) \o AcceptErrors(last.calls)

\* C17 witness: a present line whose HAL call succeeded with a valid present
\* fence: both fences recorded
C17_Witness ==
    /\ DisplayLineTaken /\ last.op = "presentDisplay" /\ last.populated
    /\ CallsTo(last.calls, "presentDisplay")[1].status = HWC2_ERROR_NONE
    /\ last.wrote = <<Entry("presentFence", 0, display, 0),
                      Entry("releaseFences", 0, display, 0)>>

\* ---- displays
\* C18: while the DisplayCommand of display d is dispatched, every call on
\* the HAL and the Resource Cache names d, every datum published names d,
\* and no step changes the must-validate flag or a cached handle of another
\* display: the flag of a display stays as it is through any sequence of
\* commands for other displays.
C18_OtherDisplaysUntouched ==
    /\ [](/\ \A i \in 1..Len(last.calls) : last.calls[i].display = display
          /\ \A i \in 1..Len(last.wrote) :
                last.wrote[i].type # "error" => last.wrote[i].display = display)
    /\ [][/\ \A x \in Displays :
               mustValidate'[x] # mustValidate[x] =>
                  /\ x = display
                  /\ pc \in {"layer", "display"}
                  /\ Count(last'.calls, "setDisplayMustValidateState") > 0
          /\ \A k \in CacheKeys :
               cache'[k] # cache[k] => (k[2] = display /\ pc \in {"layer", "display"})
         ]_vars

\* C18 witness: a present-or-validate on display 1 read its flag set and
\* validated; the flag of display 1 is clear, that of display 2 still set
C18_Witness ==
    /\ PovTaken /\ display = 1
    /\ PovMustValidate
    /\ Count(last.calls, "validateDisplay") = 1
    /\ ~mustValidate[1]
    /\ mustValidate[2]

\* C19: after every step that called HAL validate (through the validate flag
\* or the present-or-validate fallback) the must-validate flag of the
\* display is false, whatever the status, a hard error included: the call is
\* followed at once by setDisplayMustValidateState(display, false).  The
\* engine never sets a flag, so once cleared it stays clear until another
\* writer sets it; and a present-or-validate that finds the flag clear calls
\* present right after reading it, before any validate.
C19_ValidateAlwaysClearsFlag ==
    /\ [](DisplayLineTaken =>
            \A i \in 1..Len(last.calls) :
               last.calls[i].fn = "validateDisplay" =>
                  /\ ~mustValidate[display]
                  /\ i < Len(last.calls)
                  /\ last.calls[i + 1].fn = "setDisplayMustValidateState"
                  /\ last.calls[i + 1].display = display
                  /\ ~last.calls[i + 1].flag)
    /\ [][/\ \A x \in Displays : ~mustValidate[x] => ~mustValidate'[x]
          /\ (/\ pc = "display"
              /\ last'.op = "presentOrValidateDisplay" /\ last'.populated
              /\ ~mustValidate[display]) =>
                /\ Len(last'.calls) >= 3
                /\ last'.calls[2].fn = "mustValidateDisplay"
                /\ ~last'.calls[2].flag
                /\ last'.calls[3].fn = "presentDisplay"
                /\ last'.calls[3].display = display
         ]_vars

\* C19 witness: a present-or-validate read the flag set, its validate failed
\* hard, and the flag of the display is clear
C19_Witness ==
    /\ PovTaken /\ PovMustValidate
    /\ CallsTo(last.calls, "validateDisplay")[1].status = HWC2_ERROR_BAD_DISPLAY
    /\ Outcomes(last.wrote) = <<>>
    /\ ~mustValidate[display]

\* the must-validate flag of the display when call i of the step is made:
\* the value last read or written before it
FlagAt(calls, i) ==
    LET evs == {j \in 1..(i - 1) :
                  calls[j].fn \in {"mustValidateDisplay", "setDisplayMustValidateState"}}
    IN  calls[CHOOSE j \in evs : \A k \in evs : k <= j].flag

\* positions of the calls to fn, in order
Positions(calls, fn) ==
    LET idx == {i \in 1..Len(calls) : calls[i].fn = fn}
    IN  [n \in 1..Cardinality(idx) |->
            CHOOSE i \in idx : Cardinality({j \in idx : j <= i}) = n]

\* C20: the HAL calls of one present-or-validate step: setExpectedPresentTime
\* exactly once and first; validate at most once; accept at most once and
\* only after a validate that returned "no changes"; present at most twice,
\* a present that follows the validate (the second of two included) only
\* after the accept; and no present is made while the must-validate flag of
\* the display is set.
C20_PresentOrValidateCallOrder ==
    PovTaken =>
       LET hal == HalCalls(last.calls)
           v == Positions(hal, "validateDisplay")
           a == Positions(hal, "acceptDisplayChanges")
           p == Positions(hal, "presentDisplay")
       IN  /\ Count(hal, "setExpectedPresentTime") = 1
           /\ hal[1].fn = "setExpectedPresentTime"
           /\ Len(v) <= 1
           /\ Len(a) <= 1
           /\ Len(a) = 1 =>
                /\ Len(v) = 1 /\ v[1] < a[1]
                /\ hal[v[1]].status = HWC2_ERROR_NONE
           /\ Len(p) <= 2
           /\ Len(p) = 2 => (Len(a) = 1 /\ p[1] < a[1] /\ a[1] < p[2])
           /\ \A i \in 1..Len(p) :
                 (Len(v) = 1 /\ v[1] < p[i]) => (Len(a) = 1 /\ a[1] < p[i])
           /\ \A i \in 1..Len(last.calls) :
                 last.calls[i].fn = "presentDisplay" => ~FlagAt(last.calls, i)

\* C20 witness: the longest step: present as-is failed, validate found no
\* changes, the query said no client composition, accept, present again
C20_Witness ==
    /\ PovTaken
    /\ LET hal == HalCalls(last.calls)
       IN  /\ Len(hal) = 6
           /\ [i \in 1..6 |-> hal[i].fn]
                = <<"setExpectedPresentTime", "presentDisplay", "validateDisplay",
                    "getHasClientComposition", "acceptDisplayChanges",
                    "presentDisplay">>

\* C21: one present-or-validate step publishes at most one outcome, and a
\* sound one: Presented only when HAL present was called in the step and the
\* last such call returned success (so never when every present failed);
\* Validated only when HAL validate was called in the step and returned "no
\* changes" or "has changes"; and the outcome names the command's display.
C21_AtMostOneSoundOutcome ==
    PovTaken =>
       LET out == Outcomes(last.wrote)
           p == CallsTo(last.calls, "presentDisplay")
           v == CallsTo(last.calls, "validateDisplay")
       IN  /\ Len(out) <= 1
           /\ \A i \in 1..Len(out) :
                 /\ out[i].display = display
                 /\ (out[i].type = "Presented") =>
                       /\ Len(p) > 0
                       /\ p[Len(p)].status = HWC2_ERROR_NONE
                 /\ (out[i].type = "Validated") =>
                       /\ Len(v) > 0
                       /\ v[1].status \in {HWC2_ERROR_NONE, HWC2_ERROR_HAS_CHANGES}

\* C21 witness: the present as-is failed, the present after validate and
\* accept succeeded: Presented is the one outcome of the step
C21_Witness ==
    /\ PovTaken
    /\ Count(last.calls, "presentDisplay") = 2
    /\ CallsTo(last.calls, "presentDisplay")[1].status = HWC2_ERROR_BAD_DISPLAY
    /\ CallsTo(last.calls, "presentDisplay")[2].status = HWC2_ERROR_NONE
    /\ Outcomes(last.wrote) = <<Entry("Presented", 0, display, 0)>>

====
